---- MODULE Spec2Model ----
(***************************************************************************)
(* A model of inference_auto.py: the batch run of main() over the          *)
(* scenarios that glob discovers, process_scenario() and send_telegram()   *)
(* for each of them, and the end-of-batch aggregate notification.          *)
(*                                                                         *)
(* External collaborators (yfinance, the pickled classifier, Google Drive, *)
(* Telegram, the file system) are modelled by their outcomes, chosen       *)
(* nondeterministically at the call.  Every external call is appended to   *)
(* `log`, so that what was called, for which scenario and in which order   *)
(* can be stated.                                                          *)
(***************************************************************************)
EXTENDS Integers, Sequences, FiniteSets, TLC

(* ------------------------------ bounds --------------------------------- *)
\* Naming specification: length of a scenario name, number of artifacts
\* written, and number of half days the clock advances.
MaxNameLen == 2
MaxRuns == 2
MaxTicks == 2
\* Number of scenario input files that may exist in the working directory.
MaxScenarios == 2
\* Number of data rows of one <name>_history_events.csv (at least one).
MaxRows == 2
\* Number of daily closes the price source returns for one 3-day window.
MaxObs == 2

(* --------------------------- program constants ------------------------- *)
OUTPUT_BASE == "daily_signals"

\* A float cell, Python's None and the float NaN.
Float(v) == [k |-> "float", v |-> v]
None == [k |-> "None", v |-> 0]
NaN == [k |-> "NaN", v |-> 0]

\* pandas' NaT, and a timestamp at midnight of date d in time zone tz
\* ("UTC" for a tz-aware value, "naive" for one without tzinfo).
NaT == [date |-> <<>>, secs |-> 0, tz |-> "NaT"]
Timestamp(d, s, tz) == [date |-> d, secs |-> s, tz |-> tz]

(* ------------------------------ input domains -------------------------- *)
NameTable == <<"a", "b", "c", "d">>
ScenarioNames == {NameTable[k] : k \in 1..MaxScenarios}

Symbols == {"AAPL", "MSFT"}

\* Date strings of the events file, as sequences of characters.
GoodDateRaw == <<"2","0","2","4","-","0","1","-","0","3">>
BadDateRaw == <<"n","o","t","-","a","-","d","a","t","e">>
RawDates == {GoodDateRaw, BadDateRaw}

\* Daily closing prices the price source may report.
Closes == {1, 2}

\* The instants datetime.utcnow() may return during the run: naive datetimes.
RunTimes == {Timestamp(<<2024, 1, 2>>, 9 * 3600, "naive")}

(* ------------------------------ generic helpers ------------------------ *)
RECURSIVE SeqsUpTo(_, _)
SeqsUpTo(S, n) ==
    IF n = 0 THEN {<<>>}
    ELSE LET shorter == SeqsUpTo(S, n - 1)
         IN  shorter \cup {Append(s, x) : s \in {t \in shorter : Len(t) = n - 1}, x \in S}

Range(s) == {s[k] : k \in 1..Len(s)}

Permutations_(S) == {s \in SeqsUpTo(S, Cardinality(S)) :
                        Len(s) = Cardinality(S) /\ Range(s) = S}

RECURSIVE Gcd(_, _)
Gcd(a, b) == IF b = 0 THEN a ELSE Gcd(b, a % b)

Abs(x) == IF x < 0 THEN -x ELSE x

\* The exact value of num / den (den > 0), as a reduced fraction.
Ratio(num, den) ==
    LET g == Gcd(Abs(num), den) IN <<num \div g, den \div g>>

Zero == <<0, 1>>

(* ------------------- pd.to_datetime(format='%Y-%m-%d') ----------------- *)
Digits == <<"0","1","2","3","4","5","6","7","8","9">>
IsDigit(c) == \E k \in 1..10 : Digits[k] = c
DigitVal(c) == (CHOOSE k \in 1..10 : Digits[k] = c) - 1

RECURSIVE NumVal(_)
NumVal(s) == IF s = <<>> THEN 0
             ELSE 10 * NumVal(SubSeq(s, 1, Len(s) - 1)) + DigitVal(s[Len(s)])

AllDigits(s) == \A k \in 1..Len(s) : IsDigit(s[k])

\* The fields of s between the separators sep.
RECURSIVE SplitOn(_, _)
SplitOn(s, sep) ==
    IF \A k \in 1..Len(s) : s[k] # sep THEN <<s>>
    ELSE LET p == CHOOSE k \in 1..Len(s) : s[k] = sep /\ \A j \in 1..(k - 1) : s[j] # sep
         IN  <<SubSeq(s, 1, p - 1)>> \o SplitOn(SubSeq(s, p + 1, Len(s)), sep)

IsLeap(y) == (y % 4 = 0 /\ y % 100 # 0) \/ y % 400 = 0

DaysInMonth(y, m) ==
    IF m = 2 THEN (IF IsLeap(y) THEN 29 ELSE 28)
    ELSE IF m \in {4, 6, 9, 11} THEN 30 ELSE 31

\* errors='coerce', utc=True: a tz-aware UTC midnight timestamp, or NaT when
\* the string does not match %Y-%m-%d or names no calendar date.
to_datetime(raw) ==
    LET f == SplitOn(raw, "-")
    IN  IF /\ Len(f) = 3
           /\ Len(f[1]) = 4 /\ AllDigits(f[1])
           /\ Len(f[2]) \in 1..2 /\ AllDigits(f[2]) /\ NumVal(f[2]) \in 1..12
           /\ Len(f[3]) \in 1..2 /\ AllDigits(f[3])
           /\ NumVal(f[3]) \in 1..DaysInMonth(NumVal(f[1]), NumVal(f[2]))
        THEN Timestamp(<<NumVal(f[1]), NumVal(f[2]), NumVal(f[3])>>, 0, "UTC")
        ELSE NaT

(* ----------------------- strftime('%Y-%m-%d') -------------------------- *)
RECURSIVE ZeroPad(_, _)
ZeroPad(n, width) ==
    IF width = 0 THEN ""
    ELSE ZeroPad(n \div 10, width - 1) \o Digits[(n % 10) + 1]

strftime(d) == ZeroPad(d[1], 4) \o "-" \o ZeroPad(d[2], 2) \o "-" \o ZeroPad(d[3], 2)

(* ------------------------------ FeatureService ------------------------- *)
\* What yf.Ticker(symbol).history(start, end)['Close'] may give for one
\* window: an exception, or up to MaxObs daily closes.
Raised == [raised |-> TRUE, closes |-> <<>>]
LookupOutcomes == {Raised} \cup {[raised |-> FALSE, closes |-> c] : c \in SeqsUpTo(Closes, MaxObs)}

\* The lookup as the helpers see it.  With ts = NaT the window bounds
\* ts.date() -/+ timedelta are NaT and the lookup raises inside the try.
history(ts, w) == IF ts = NaT THEN Raised ELSE w

\* The change divided by the last close in the place of the previous one.
compute_pct_return_OverLast(symbol, ts, w) ==
    LET hist == history(ts, w)
        n == Len(hist.closes)
    IN  IF ~hist.raised /\ n >= 2
        THEN Ratio(hist.closes[n] - hist.closes[n - 1], hist.closes[n])
        ELSE Zero

compute_pct_return(symbol, ts, w) ==
    LET hist == history(ts, w)
        n == Len(hist.closes)
    IN  IF ~hist.raised /\ n >= 2
        THEN Ratio(hist.closes[n] - hist.closes[n - 1], hist.closes[n - 1])
        ELSE Zero

\* The first close of the window in the place of the last.
fetch_price_First(symbol, ts, w) ==
    LET hist == history(ts, w)
        n == Len(hist.closes)
    IN  IF ~hist.raised /\ n >= 1 THEN Float(hist.closes[1]) ELSE None

\* hist.iloc[-1] of an empty series raises IndexError, caught by the except.
fetch_price(symbol, ts, w) ==
    LET hist == history(ts, w)
        n == Len(hist.closes)
    IN  IF ~hist.raised /\ n >= 1 THEN Float(hist.closes[n]) ELSE None

\* The values pct_return can take, and the classifiers over them: the model
\* artifact is an opaque deterministic map from a feature row to a label.
FeatureValues == {Zero} \cup {Ratio(b - a, a) : a \in Closes, b \in Closes}
Classifiers == [FeatureValues -> {0, 1}]

\* model.predict(df[['pct_return']]): one label per row of X, by position.
predict(clf, X) == [k \in 1..Len(X) |-> clf[X[k]]]

\* One failed lookup wipes the whole column.
AsColumn_Wipes(vals) ==
    IF \E k \in 1..Len(vals) : vals[k] = None
    THEN [k \in 1..Len(vals) |-> None]
    ELSE vals

\* The column a Series of apply results becomes: a column holding a float and
\* a None is float64 with NaN for the None; a column of None only keeps None.
AsColumn(vals) ==
    IF \A k \in 1..Len(vals) : vals[k] = None THEN vals
    ELSE [k \in 1..Len(vals) |-> IF vals[k] = None THEN NaN ELSE vals[k]]

(* ------------------------------ paths ---------------------------------- *)
\* A path is the sequence of its components, the text between separators;
\* names hold no separator.  A path whose last component is empty is the
\* empty string or ends in a separator.
\* os.path.join(a, b) for a relative b: a + b when a is empty or ends in a
\* separator, a + "/" + b otherwise.
path_join(a, b) ==
    IF a = <<>> THEN <<b>>
    ELSE IF a[Len(a)] = "" THEN [a EXCEPT ![Len(a)] = b]
    ELSE Append(a, b)

\* The first component in the place of the last.
basename_First(path) == path[1]

\* os.path.basename: the component after the last separator.
basename(path) == path[Len(path)]

\* The path as the string the file system and the notification see.
RECURSIVE PathStr(_)
PathStr(path) ==
    IF Len(path) = 1 THEN path[1]
    ELSE PathStr(SubSeq(path, 1, Len(path) - 1)) \o "/" \o path[Len(path)]

\* folder of process_scenario.
Folder(name) == path_join(<<OUTPUT_BASE>>, name)

\* A naming that leaves the date out of the file name.
OutCsv_NoDate(name, date_str) ==
    path_join(Folder(name), name \o "_signals" \o ".csv")

\* out_csv of process_scenario.
OutCsv(name, date_str) ==
    path_join(Folder(name), name \o "_signals_" \o date_str \o ".csv")

(* ------------------------------ send_telegram -------------------------- *)
RECURSIVE DaysBeforeMonth(_, _)
DaysBeforeMonth(y, m) ==
    IF m = 1 THEN 0 ELSE DaysBeforeMonth(y, m - 1) + DaysInMonth(y, m - 1)

\* Days from 0001-01-01 to the date d.
DayNumber(d) ==
    LET y == d[1] - 1
    IN  365 * y + (y \div 4) - (y \div 100) + (y \div 400)
          + DaysBeforeMonth(d[1], d[2]) + d[3] - 1

\* delta = r['event_timestamp'] - now.  NaT minus a datetime is NaT; a
\* tz-aware Timestamp minus a tz-naive datetime raises TypeError.
TimestampSub(ts, now) ==
    IF ts = NaT THEN [exc |-> "", nat |-> TRUE, secs |-> 0]
    ELSE IF (ts.tz = "naive") # (now.tz = "naive")
    THEN [exc |-> "TypeError", nat |-> FALSE, secs |-> 0]
    ELSE [exc |-> "", nat |-> FALSE,
          secs |-> (DayNumber(ts.date) - DayNumber(now.date)) * 86400 + ts.secs - now.secs]

\* hrs = max(0, math.ceil(delta.total_seconds() / 3600)).  total_seconds() of
\* NaT is nan, and math.ceil(nan) raises ValueError.
EntryWindowHours(ts, now) ==
    LET delta == TimestampSub(ts, now)
        up == -((-delta.secs) \div 3600)
    IN  IF delta.exc # "" THEN [exc |-> delta.exc, hrs |-> 0]
        ELSE IF delta.nat THEN [exc |-> "ValueError", hrs |-> 0]
        ELSE [exc |-> "", hrs |-> IF up > 0 THEN up ELSE 0]

\* The text after "Entry Price:" of one bullet.
PriceText(p) == IF p # None THEN p ELSE [k |-> "N/A", v |-> 0]

\* The loop of send_telegram over buys.iterrows(), from row k on: the bullets
\* appended to the caption, or the exception that ends the loop.
RECURSIVE Bullets(_, _, _)
Bullets(b, now, k) ==
    IF k > Len(b) THEN [exc |-> "", bullets |-> <<>>]
    ELSE LET w == EntryWindowHours(b[k].event_timestamp, now)
             rest == Bullets(b, now, k + 1)
         IN  IF w.exc # "" THEN [exc |-> w.exc, bullets |-> <<>>]
             ELSE IF rest.exc # "" THEN rest
             ELSE [exc |-> "",
                   bullets |-> <<[price |-> PriceText(b[k].entry_price), hrs |-> w.hrs]>>
                                 \o rest.bullets]

\* One external call: the operation, the scenario it is made for ("" for
\* none), a text argument, a count or row number, and how the call ended.
Event(op, scen, arg, n, out) ==
    [op |-> op, scen |-> scen, arg |-> arg, n |-> n, out |-> out]

\* send_telegram(file_path, buys, scenario_name) at the instant now, when
\* requests.post ends as o: the calls it makes, and whether it raises.
send_telegram(file_path, b, scenario_name, now, o) ==
    IF b # <<>>
    THEN LET c == Bullets(b, now, 1)
         IN  IF c.exc # "" THEN [raised |-> TRUE, calls |-> <<>>]
             ELSE [raised |-> o = "raise",
                   calls |-> <<Event("sendDocument", scenario_name, PathStr(file_path),
                                     Len(c.bullets), o)>>]
    ELSE [raised |-> o = "raise",
          calls |-> <<Event("sendMessage", scenario_name, "scenario", 0, o)>>]

(* ------------------------------ state ---------------------------------- *)
VARIABLES
    pc,           \* position of main(): see below
    order,        \* the list glob.glob returns, as scenario names
    models,       \* the names whose <name>_model.pkl exists
    pos,          \* number of entries of order the loop has finished with
    any_signals,  \* main's flag
    df,           \* process_scenario's table of the scenario in progress
    col,          \* results of the df.apply / buys.apply in progress
    buys,         \* process_scenario's accepted rows
    out_csv,      \* path of the artifact of the scenario in progress
    disk,         \* files written under OUTPUT_BASE: [path, header, rows]
    log,          \* every external call so far, in order
    result,       \* per scenario, what became of it
    utcnow,       \* the clock
    runs,         \* naming specification: the artifacts written so far
    probe         \* helper specification: one call of a feature helper

vars == <<pc, order, models, pos, any_signals, df, col, buys, out_csv, disk, log,
          result, utcnow, runs, probe>>

\* pc: "start"    before init_drive
\*     "loop"     at the head of the for loop (or past its end)
\*     "model"    process_scenario, events loaded, before joblib.load
\*     "features" process_scenario, inside df.apply(compute_pct_return)
\*     "filter"   process_scenario, after model.predict, before the filter
\*     "prices"   process_scenario, inside buys.apply(fetch_price)
\*     "save"     process_scenario, before the artifact is written
\*     "upload"   process_scenario, before the Drive upload
\*     "notify"   main, process_scenario returned a tuple
\*     "done"     main returned
\*     "raised"   an exception left main (the process ends with a traceback)



\* The scenario the loop is at.
name == order[pos + 1]

\* Events files: at least one data row, each a date string and a ticker.
RawEvents == [DateRaw : RawDates, Ticker : Symbols]
EventTables == SeqsUpTo(RawEvents, MaxRows) \ {<<>>}

\* Outcomes of requests.post: a 2xx response, an error response (returned,
\* and ignored by the caller), or an exception (connection error, timeout).
PostOutcomes == {"ok", "error", "raise"}

\* An exception that is swallowed: the loop goes on with the next entry.
Uncaught_Swallowed(p) == [pc |-> "loop", pos |-> p + 1]

\* An exception that nothing catches leaves main: no further statement runs.
Uncaught(p) == [pc |-> "raised", pos |-> p]

\* break in the place of continue: the loop ends.
Continue_Break(p) == [pc |-> "loop", pos |-> Len(order)]

\* continue: the loop goes on with the next entry of the list.
Continue(p) == [pc |-> "loop", pos |-> p + 1]

\* os.path.exists(model_path)
ModelExists(n) == n \in models

Init ==
    /\ pc = "start"
    /\ \E S \in SUBSET ScenarioNames :
          /\ order \in Permutations_(S)
          /\ models \in SUBSET S
    /\ pos = 0
    /\ any_signals = FALSE
    /\ df = <<>>
    /\ col = <<>>
    /\ buys = <<>>
    /\ out_csv = <<>>
    /\ disk = {}
    /\ log = <<>>
    /\ result = [s \in ScenarioNames |-> "unvisited"]
    /\ utcnow \in RunTimes
    /\ runs = <<>>
    /\ probe = <<>>

(* ------------------------------ main ----------------------------------- *)
\* drive = init_drive(): a failure to build the Drive client is fatal.
InitDrive ==
    /\ pc = "start"
    /\ \E out \in {"ok", "raise"} :
          /\ log' = Append(log, Event("init_drive", "", "", 0, out))
          /\ pc' = IF out = "ok" THEN "loop" ELSE "raised"
    /\ UNCHANGED <<order, models, pos, any_signals, df, col, buys, out_csv, disk,
                   result, utcnow, runs, probe>>

\* A skip that also sends the scenario's no-signal text.
SkipMissingModel_Notifies ==
    /\ pc = "loop"
    /\ pos < Len(order)
    /\ ~ModelExists(name)
    /\ log' = log \o <<Event("print", name, "Skipping: missing model", 0, "ok"),
                       Event("sendMessage", name, "scenario", 0, "ok")>>
    /\ result' = [result EXCEPT ![name] = "skipped"]
    /\ pc' = Continue(pos).pc
    /\ pos' = Continue(pos).pos
    /\ UNCHANGED <<order, models, any_signals, df, col, buys, out_csv, disk,
                   utcnow, runs, probe>>

\* if not os.path.exists(model_path): print(...); continue
SkipMissingModel ==
    /\ pc = "loop"
    /\ pos < Len(order)
    /\ ~ModelExists(name)
    /\ log' = Append(log, Event("print", name, "Skipping: missing model", 0, "ok"))
    /\ result' = [result EXCEPT ![name] = "skipped"]
    /\ pc' = Continue(pos).pc
    /\ pos' = Continue(pos).pos
    /\ UNCHANGED <<order, models, any_signals, df, col, buys, out_csv, disk,
                   utcnow, runs, probe>>

(* ------------------------------ process_scenario ----------------------- *)
\* The table of step 1: the raw columns and the parsed timestamp.
LoadedTable(t) ==
    [k \in 1..Len(t) |->
        [DateRaw |-> t[k].DateRaw, symbol |-> t[k].Ticker,
         event_timestamp |-> to_datetime(t[k].DateRaw),
         pct_return |-> Zero, signal |-> -1]]

\* 1) pd.read_csv and pd.to_datetime.  An unreadable file raises.
LoadEvents ==
    /\ pc = "loop"
    /\ pos < Len(order)
    /\ ModelExists(name)
    /\ \/ /\ log' = Append(log, Event("read_csv", name, "", 0, "raise"))
          /\ pc' = Uncaught(pos).pc
          /\ pos' = Uncaught(pos).pos
          /\ result' = [result EXCEPT ![name] = "raised"]
          /\ df' = df
       \/ \E t \in EventTables :
             /\ log' = Append(log, Event("read_csv", name, "", Len(t), "ok"))
             /\ df' = LoadedTable(t)
             /\ pc' = "model"
             /\ pos' = pos
             /\ result' = [result EXCEPT ![name] = "processing"]
    /\ UNCHANGED <<order, models, any_signals, col, buys, out_csv, disk, utcnow, runs, probe>>

\* 2) model = joblib.load(model_path).  A corrupt artifact raises.
LoadModel ==
    /\ pc = "model"
    /\ \/ /\ log' = Append(log, Event("joblib_load", name, "", 0, "raise"))
          /\ pc' = Uncaught(pos).pc
          /\ pos' = Uncaught(pos).pos
          /\ result' = [result EXCEPT ![name] = "raised"]
       \/ /\ log' = Append(log, Event("joblib_load", name, "", 0, "ok"))
          /\ pc' = "features"
          /\ pos' = pos
          /\ result' = result
    /\ col' = <<>>
    /\ UNCHANGED <<order, models, any_signals, df, buys, out_csv, disk, utcnow, runs, probe>>

\* df.apply(lambda r: compute_pct_return(...), axis=1), one row at a time.
ComputeFeatureRow ==
    /\ pc = "features"
    /\ Len(col) < Len(df)
    /\ LET k == Len(col) + 1
       IN  \E w \in LookupOutcomes :
              /\ col' = Append(col, compute_pct_return(df[k].symbol, df[k].event_timestamp, w))
              /\ log' = Append(log, Event("compute_pct_return", name, "", k, "ok"))
    /\ UNCHANGED <<pc, order, models, pos, any_signals, df, buys, out_csv, disk,
                   result, utcnow, runs, probe>>

\* The rows the classifier is given: df[['pct_return']], every row of df.
ClassifierInput(table, pct) == [k \in 1..Len(table) |-> pct[k]]

\* df['pct_return'] = ...; df['signal'] = model.predict(df[['pct_return']])
Predict ==
    /\ pc = "features"
    /\ Len(col) = Len(df)
    /\ \E clf \in Classifiers :
          LET X == ClassifierInput(df, col)
              signal == predict(clf, X)
          IN  /\ df' = [k \in 1..Len(df) |->
                           [df[k] EXCEPT !.pct_return = col[k], !.signal = signal[k]]]
              /\ log' = Append(log, Event("predict", name, "", Len(X), "ok"))
    /\ pc' = "filter"
    /\ col' = <<>>
    /\ UNCHANGED <<order, models, pos, any_signals, buys, out_csv, disk, result,
                   utcnow, runs, probe>>

\* The filter on the other label.
RECURSIVE Accepted_Zero(_, _)
Accepted_Zero(table, k) ==
    IF k > Len(table) THEN <<>>
    ELSE (IF table[k].signal = 0
          THEN <<[index |-> k, symbol |-> table[k].symbol,
                  event_timestamp |-> table[k].event_timestamp,
                  entry_price |-> None]>>
          ELSE <<>>) \o Accepted_Zero(table, k + 1)

\* buys = df[df['signal'] == 1].copy(): the accepted rows, in row order, each
\* with its index label.
RECURSIVE Accepted(_, _)
Accepted(table, k) ==
    IF k > Len(table) THEN <<>>
    ELSE (IF table[k].signal = 1
          THEN <<[index |-> k, symbol |-> table[k].symbol,
                  event_timestamp |-> table[k].event_timestamp,
                  entry_price |-> None]>>
          ELSE <<>>) \o Accepted(table, k + 1)

\* The early return left out.
ReturnsNone_Never(b) == FALSE

\* if buys.empty: return None
ReturnsNone(b) == b = <<>>

\* buys = ...; if buys.empty: return None.  Back in main, a None result
\* prints the no-signal line and the loop goes on.  result records what the
\* classification gave: an empty or a non-empty accepted set.
Filter ==
    /\ pc = "filter"
    /\ LET b == Accepted(df, 1)
       IN  IF ReturnsNone(b)
           THEN /\ log' = Append(log, Event("print", name, "No BUY signals", 0, "ok"))
                /\ result' = [result EXCEPT ![name] =
                                 IF b = <<>> THEN "NoSignal" ELSE "signals"]
                /\ pos' = pos + 1
                /\ pc' = "loop"
                /\ buys' = <<>>
                /\ df' = <<>>
           ELSE /\ log' = log
                /\ result' = [result EXCEPT ![name] =
                                 IF b = <<>> THEN "NoSignal" ELSE "signals"]
                /\ pos' = pos
                /\ pc' = "prices"
                /\ buys' = b
                /\ df' = <<>>
    /\ UNCHANGED <<order, models, any_signals, col, out_csv, disk, utcnow, runs, probe>>

\* 3) buys.apply(lambda r: fetch_price(...), axis=1), one row at a time.
FetchPriceRow ==
    /\ pc = "prices"
    /\ Len(col) < Len(buys)
    /\ LET k == Len(col) + 1
       IN  \E w \in LookupOutcomes :
              /\ col' = Append(col, fetch_price(buys[k].symbol, buys[k].event_timestamp, w))
              /\ log' = Append(log, Event("fetch_price", name, "", k, "ok"))
    /\ UNCHANGED <<pc, order, models, pos, any_signals, df, buys, out_csv, disk,
                   result, utcnow, runs, probe>>

\* buys['entry_price'] = the results of the apply, as a column.
WithEntryPrice(b, prices) ==
    [k \in 1..Len(b) |-> [b[k] EXCEPT !.entry_price = AsColumn(prices)[k]]]

\* The columns written by to_csv, in order.
CsvHeader == <<"symbol", "entry_price", "event_timestamp">>

\* buys[['symbol','entry_price','event_timestamp']].to_csv(out_csv, index=False)
CsvFile(path, b) ==
    [path |-> PathStr(path), header |-> CsvHeader,
     rows |-> [k \in 1..Len(b) |-> <<b[k].symbol, b[k].entry_price, b[k].event_timestamp>>]]

\* Writing a file replaces what the path held.
WriteFile(files, f) == {g \in files : g.path # f.path} \cup {f}

\* 4) date_str, os.makedirs(folder, exist_ok=True), to_csv(out_csv).
SaveCsv ==
    /\ pc = "prices"
    /\ Len(col) = Len(buys)
    /\ LET b == WithEntryPrice(buys, col)
           date_str == strftime(utcnow.date)
           path == OutCsv(name, date_str)
       IN  /\ buys' = b
           /\ out_csv' = path
           /\ disk' = WriteFile(disk, CsvFile(path, b))
           /\ log' = log \o <<Event("makedirs", name, PathStr(Folder(name)), 0, "ok"),
                              Event("to_csv", name, PathStr(path), Len(b), "ok")>>
    /\ col' = <<>>
    /\ pc' = "upload"
    /\ UNCHANGED <<order, models, pos, any_signals, df, result, utcnow, runs, probe>>

\* 5) drive_svc.files().create(body=meta, media_body=media).execute(): the
\* object is created, or execute() raises; then return out_csv, buys.
Upload ==
    /\ pc = "upload"
    /\ \/ /\ log' = Append(log, Event("drive_create", name, basename(out_csv), 0, "raise"))
          /\ pc' = Uncaught(pos).pc
          /\ pos' = Uncaught(pos).pos
       \/ /\ log' = Append(log, Event("drive_create", name, basename(out_csv), 0, "ok"))
          /\ pc' = "notify"
          /\ pos' = pos
    /\ UNCHANGED <<order, models, any_signals, df, col, buys, out_csv, disk, result,
                   utcnow, runs, probe>>

(* ------------------------------ main, continued ------------------------ *)
\* if res: send_telegram(file_path, buys, name); any_signals = True
Notify ==
    /\ pc = "notify"
    /\ \E o \in PostOutcomes :
          LET r == send_telegram(out_csv, buys, name, utcnow, o)
          IN  /\ log' = log \o r.calls
              /\ IF r.raised
                 THEN /\ pc' = Uncaught(pos).pc
                      /\ pos' = Uncaught(pos).pos
                      /\ any_signals' = any_signals
                 ELSE /\ pc' = "loop"
                      /\ pos' = pos + 1
                      /\ any_signals' = TRUE
    /\ buys' = <<>>
    /\ out_csv' = <<>>
    /\ UNCHANGED <<order, models, df, col, disk, result, utcnow, runs, probe>>

\* The test of the flag inverted.
AggregateDue_Inverted(flag) == flag

\* if not any_signals: the aggregate message is due.
AggregateDue(flag) == ~flag

\* After the loop: the aggregate requests.post, when due; then main returns.
Aggregate ==
    /\ pc = "loop"
    /\ pos = Len(order)
    /\ IF AggregateDue(any_signals)
       THEN \E o \in PostOutcomes :
               /\ log' = Append(log, Event("sendMessage", "", "aggregate", 0, o))
               /\ pc' = IF o = "raise" THEN "raised" ELSE "done"
       ELSE /\ log' = log
            /\ pc' = "done"
    /\ UNCHANGED <<order, models, pos, any_signals, df, col, buys, out_csv, disk,
                   result, utcnow, runs, probe>>

Next ==
    \/ InitDrive
    \/ SkipMissingModel
    \/ LoadEvents
    \/ LoadModel
    \/ ComputeFeatureRow
    \/ Predict
    \/ Filter
    \/ FetchPriceRow
    \/ SaveCsv
    \/ Upload
    \/ Notify
    \/ Aggregate

Spec == Init /\ [][Next]_vars

(* ------------------- naming of the artifact across runs ---------------- *)
\* The file naming of step 4 of process_scenario, applied to scenario names
\* as strings, run after run while the clock advances.
NameAlphabet == {"a", "_"}

RECURSIVE NamesOfLen(_)
NamesOfLen(n) ==
    IF n = 0 THEN {""} ELSE {x \o c : x \in NamesOfLen(n - 1), c \in NameAlphabet}

\* The names the discovery pattern admits, the empty one (the file
\* _history_events.csv) included.
FileNames == UNION {NamesOfLen(n) : n \in 0..MaxNameLen}

\* Accepted tables as step 4 receives them: never empty, prices looked up.
NamingBuys ==
    {WithEntryPrice(<<[index |-> 1, symbol |-> "AAPL",
                       event_timestamp |-> to_datetime(GoodDateRaw),
                       entry_price |-> None]>>, <<p>>) : p \in {None, Float(1)}}

NamingStart == Timestamp(<<2024, 12, 31>>, 9 * 3600, "naive")

NextDay(d) ==
    IF d[3] < DaysInMonth(d[1], d[2]) THEN <<d[1], d[2], d[3] + 1>>
    ELSE IF d[2] < 12 THEN <<d[1], d[2] + 1, 1>>
    ELSE <<d[1] + 1, 1, 1>>

\* The instant half a day after t.
HalfDayLater(t) ==
    IF t.secs + 43200 < 86400 THEN [t EXCEPT !.secs = t.secs + 43200]
    ELSE [t EXCEPT !.secs = t.secs + 43200 - 86400, !.date = NextDay(t.date)]

\* Half days from NamingStart to t.
TicksAt(t) ==
    ((DayNumber(t.date) - DayNumber(NamingStart.date)) * 86400
        + t.secs - NamingStart.secs) \div 43200

InitNaming ==
    /\ pc = "naming"
    /\ order = <<>>
    /\ models = {}
    /\ pos = 0
    /\ any_signals = FALSE
    /\ df = <<>>
    /\ col = <<>>
    /\ buys = <<>>
    /\ out_csv = <<>>
    /\ disk = {}
    /\ log = <<>>
    /\ result = [s \in ScenarioNames |-> "unvisited"]
    /\ utcnow = NamingStart
    /\ runs = <<>>
    /\ probe = <<>>

\* Step 4 of process_scenario for the scenario called n, at the clock's date.
SaveArtifact(n, b) ==
    /\ pc = "naming"
    /\ Len(runs) < MaxRuns
    /\ LET date_str == strftime(utcnow.date)
           path == OutCsv(n, date_str)
       IN  /\ buys' = b
           /\ out_csv' = path
           /\ disk' = WriteFile(disk, CsvFile(path, b))
           /\ log' = log \o <<Event("makedirs", n, PathStr(Folder(n)), 0, "ok"),
                              Event("to_csv", n, PathStr(path), Len(b), "ok")>>
           /\ runs' = Append(runs, [name |-> n, date |-> utcnow.date,
                                    secs |-> utcnow.secs, path |-> PathStr(path)])
    /\ UNCHANGED <<pc, order, models, pos, any_signals, df, col, result,
                   utcnow, probe>>

\* Time passes.
Tick ==
    /\ pc = "naming"
    /\ TicksAt(utcnow) < MaxTicks
    /\ utcnow' = HalfDayLater(utcnow)
    /\ UNCHANGED <<pc, order, models, pos, any_signals, df, col, buys, out_csv, disk,
                   log, result, runs, probe>>

NextNaming ==
    \/ \E n \in FileNames, b \in NamingBuys : SaveArtifact(n, b)
    \/ Tick

SpecNaming == InitNaming /\ [][NextNaming]_vars

(* ------------------- the feature helpers, call by call ----------------- *)
\* One call of compute_pct_return or fetch_price on a symbol, a timestamp as
\* to_datetime gives it, and one outcome of the price source.
OtherDateRaw == <<"2","0","2","4","-","0","1","-","0","5">>
ProbeTimestamps == {to_datetime(raw) : raw \in RawDates \cup {OtherDateRaw}}

InitFeature ==
    /\ pc = "feature"
    /\ order = <<>>
    /\ models = {}
    /\ pos = 0
    /\ any_signals = FALSE
    /\ df = <<>>
    /\ col = <<>>
    /\ buys = <<>>
    /\ out_csv = <<>>
    /\ disk = {}
    /\ log = <<>>
    /\ result = [s \in ScenarioNames |-> "unvisited"]
    /\ utcnow \in RunTimes
    /\ runs = <<>>
    /\ \E sym \in Symbols, ts \in ProbeTimestamps, w \in LookupOutcomes :
          probe = [symbol |-> sym, ts |-> ts, w |-> w, call |-> "none",
                   pct |-> Zero, price |-> None]

CallPctReturn ==
    /\ pc = "feature"
    /\ probe.call = "none"
    /\ probe' = [probe EXCEPT !.call = "compute_pct_return",
                              !.pct = compute_pct_return(probe.symbol, probe.ts, probe.w)]
    /\ UNCHANGED <<pc, order, models, pos, any_signals, df, col, buys, out_csv, disk,
                   log, result, utcnow, runs>>

CallFetchPrice ==
    /\ pc = "feature"
    /\ probe.call = "none"
    /\ probe' = [probe EXCEPT !.call = "fetch_price",
                              !.price = fetch_price(probe.symbol, probe.ts, probe.w)]
    /\ UNCHANGED <<pc, order, models, pos, any_signals, df, col, buys, out_csv, disk,
                   log, result, utcnow, runs>>

NextFeature ==
    \/ CallPctReturn
    \/ CallFetchPrice

SpecFeature == InitFeature /\ [][NextFeature]_vars

(* ------------------------------ observations --------------------------- *)
\* Positions of log holding a call of op made for scenario s.
Calls(op, s) == {k \in 1..Len(log) : log[k].op = op /\ log[k].scen = s}

\* Positions of log holding the end-of-batch aggregate message.
AggregateCalls == {k \in 1..Len(log) : log[k].op = "sendMessage" /\ log[k].arg = "aggregate"}

\* init_drive returned: main reached the discovery of the scenarios.
DriveReady == log # <<>> /\ log[1].op = "init_drive" /\ log[1].out = "ok"

\* main has ended, by returning or by an exception.
Finished == pc \in {"done", "raised"}

\* The scenarios whose accepted set was empty, and those where it was not.
EmptyAccepted == {s \in Range(order) : result[s] = "NoSignal"}
NonEmptyAccepted == {s \in Range(order) : result[s] = "signals"}

\* process_scenario was entered for s.
Processed(s) == Calls("read_csv", s) # {}

\* A call made for s raised inside process_scenario.
RaisedInside(s) ==
    \E k \in 1..Len(log) :
        /\ log[k].scen = s
        /\ log[k].op \in {"read_csv", "joblib_load", "drive_create"}
        /\ log[k].out = "raise"

\* Position of s in the discovery order.
IndexOf(s) == CHOOSE k \in 1..Len(order) : order[k] = s

(* ------------------------------ claims --------------------------------- *)
\* C1: when main has returned, every processed scenario whose accepted set is
\* empty has had exactly one plain-text "no signal for <name>" notification.
C1_NoSignalNotifiedOnce ==
    pc = "done" =>
        \A s \in EmptyAccepted : Cardinality(Calls("sendMessage", s)) = 1

\* C2: in a run that got past init_drive and in which every discovered
\* scenario gave zero accepted rows (or was skipped, or there is none), the
\* aggregate notification is sent exactly once by the end of the run; and an
\* aggregate notification is only ever sent when the loop is past the last
\* scenario, as the last call of the run.
C2_AggregateOnceAfterAll ==
    /\ (/\ Finished
        /\ DriveReady
        /\ \A s \in Range(order) : result[s] \in {"NoSignal", "skipped"})
          => Cardinality(AggregateCalls) = 1
    /\ \A k \in AggregateCalls :
          /\ pos = Len(order)
          /\ k = Len(log)
          /\ \A s \in Range(order) : result[s] # "unvisited"

C2_Witness ==
    /\ pc = "done"
    /\ Len(order) = 2
    /\ \A s \in Range(order) : result[s] = "NoSignal"
    /\ Cardinality(AggregateCalls) = 1

\* C3: once a scenario has a non-empty accepted set, the run holds no
\* aggregate notification, whatever became of its upload and notification;
\* and no run holds more than one aggregate notification.
C3_NoAggregateWithSignals ==
    /\ Cardinality(AggregateCalls) <= 1
    /\ NonEmptyAccepted # {} => AggregateCalls = {}

C3_Witness ==
    /\ Finished
    /\ \E s \in NonEmptyAccepted :
          \E k \in Calls("drive_create", s) : log[k].out = "ok"
    /\ AggregateCalls = {}

\* C4: an exception raised inside process_scenario for one scenario is
\* contained: when the run has ended every discovered scenario has been
\* visited and the end-of-batch decision has been taken (main returned).
C4_ExceptionContained ==
    (Finished /\ \E s \in Range(order) : RaisedInside(s)) =>
        /\ \A t \in Range(order) : result[t] # "unvisited"
        /\ pos = Len(order)
        /\ pc = "done"

\* C5: a scenario without model artifact is skipped and the batch goes on:
\* of the scenarios the loop is finished with, those without a model are
\* skipped (never processed) and every one whose model exists was processed,
\* wherever the skipped ones stand in the order; a run that ended with an
\* exception ended at a scenario whose model exists or at the aggregate call,
\* never at a skip; and when main returns every discovered scenario whose
\* model exists has been processed.
C5_SkipDoesNotAbort ==
    /\ \A k \in 1..Len(order) :
          k <= pos =>
             IF order[k] \in models
             THEN Processed(order[k]) /\ result[order[k]] # "skipped"
             ELSE ~Processed(order[k]) /\ result[order[k]] = "skipped"
    /\ (pc = "raised" /\ DriveReady /\ pos < Len(order)) => order[pos + 1] \in models
    /\ pc = "done" =>
          /\ pos = Len(order)
          /\ \A s \in Range(order) \cap models : Processed(s)

C5_Witness ==
    /\ pc = "done"
    /\ Len(order) = 2
    /\ order[1] \notin models /\ result[order[1]] = "skipped"
    /\ order[2] \in models /\ Processed(order[2])

\* C6: a failed upload or notification call for one scenario is not retried
\* and leaves the rest of the run as it would have been: when the run has
\* ended, every scenario after it in the order whose model exists has been
\* processed.
C6_FailureDoesNotAffectOthers ==
    Finished =>
        \A k \in 1..Len(log) :
            (/\ log[k].op \in {"drive_create", "sendDocument", "sendMessage"}
             /\ log[k].scen \in Range(order)
             /\ log[k].out \in {"error", "raise"})
              => /\ Cardinality(Calls(log[k].op, log[k].scen)) = 1
                 /\ \A j \in 1..Len(order) :
                       (j > IndexOf(log[k].scen) /\ order[j] \in models)
                          => Processed(order[j])

\* C7: a scenario whose accepted set is empty has no entry-price lookup, no
\* output directory, no artifact file and no upload.
C7_EmptySetNoSideEffects ==
    \A s \in EmptyAccepted :
        /\ Calls("fetch_price", s) = {}
        /\ Calls("makedirs", s) = {}
        /\ Calls("to_csv", s) = {}
        /\ Calls("drive_create", s) = {}
        /\ \A f \in disk : f.path # PathStr(OutCsv(s, strftime(utcnow.date)))

C7_Witness ==
    /\ pc = "done"
    /\ \E s \in EmptyAccepted : Calls("predict", s) # {}

\* C8: after the classification, the table holds every raw row, the
\* classifier was given exactly the rows with a valid timestamp, and no row
\* with a null timestamp carries label 1.
C8_UnparsableDateExcluded ==
    pc = "filter" =>
        /\ Len(df) = log[Len(log) - Len(df) - 2].n
        /\ log[Len(log)].n = Cardinality({k \in 1..Len(df) : df[k].event_timestamp # NaT})
        /\ \A k \in 1..Len(df) : df[k].event_timestamp = NaT => df[k].signal # 1

\* C9: when the run has ended, every scenario with a non-empty accepted set
\* whose artifact was uploaded has had exactly one notification, a document
\* with caption carrying its artifact, and no plain text message; plain text
\* messages are for scenarios with an empty accepted set or for the aggregate.
C9_OneDocumentPerSignalScenario ==
    /\ Finished =>
          \A s \in NonEmptyAccepted :
              (\E k \in Calls("drive_create", s) : log[k].out = "ok") =>
                  /\ Cardinality(Calls("sendDocument", s)) = 1
                  /\ \A k \in Calls("sendDocument", s) :
                        log[k].arg = PathStr(OutCsv(s, strftime(utcnow.date)))
                  /\ Calls("sendMessage", s) = {}
    /\ \A k \in 1..Len(log) :
          log[k].op = "sendMessage" =>
              log[k].arg = "aggregate" \/ log[k].scen \in EmptyAccepted

\* The date part of the file name, as the documentation writes it, for the
\* dates the clock of the naming specification reaches.
IsoText(d) ==
    IF d = <<2024, 12, 31>> THEN "2024-12-31"
    ELSE IF d = <<2025, 1, 1>> THEN "2025-01-01"
    ELSE IF d = <<2025, 1, 2>> THEN "2025-01-02"
    ELSE "?"

\* C10 as stated: over the artifacts written so far, two have the same path
\* exactly when they have the same scenario name and the same UTC date; the
\* path is daily_signals/<name>/<name>_signals_<YYYY-MM-DD>.csv for every
\* name; and the disk holds one file per (name, date), a second run on the
\* same date adds none.
C10_PathFunctionOfNameAndDate ==
    /\ \A i \in 1..Len(runs) : \A j \in 1..Len(runs) :
          (runs[i].path = runs[j].path)
             <=> (runs[i].name = runs[j].name /\ runs[i].date = runs[j].date)
    /\ \A i \in 1..Len(runs) :
          runs[i].path = "daily_signals/" \o runs[i].name \o "/" \o runs[i].name
                            \o "_signals_" \o IsoText(runs[i].date) \o ".csv"
    /\ Cardinality(disk) = Cardinality({<<runs[i].name, runs[i].date>> : i \in 1..Len(runs)})

\* C10, amended: two artifacts have the same path exactly when they have the
\* same scenario name and the same UTC date; the path is
\* daily_signals/<name>/<name>_signals_<YYYY-MM-DD>.csv for a non-empty name
\* and daily_signals/_signals_<YYYY-MM-DD>.csv for the empty name; the disk
\* holds one file per (name, date), the one the last save of that name and
\* date wrote; and each save makes the folder and writes its rows.
C10_PathOfNameAndDate ==
    /\ \A i \in 1..Len(runs) : \A j \in 1..Len(runs) :
          (runs[i].path = runs[j].path)
             <=> (runs[i].name = runs[j].name /\ runs[i].date = runs[j].date)
    /\ \A i \in 1..Len(runs) :
          runs[i].path =
             IF runs[i].name = ""
             THEN "daily_signals/_signals_" \o IsoText(runs[i].date) \o ".csv"
             ELSE "daily_signals/" \o runs[i].name \o "/" \o runs[i].name
                     \o "_signals_" \o IsoText(runs[i].date) \o ".csv"
    /\ Cardinality(disk) = Cardinality({<<runs[i].name, runs[i].date>> : i \in 1..Len(runs)})
    /\ \A g \in disk : \E i \in 1..Len(runs) : g.path = runs[i].path /\ Len(g.rows) = 1
    /\ Len(runs) > 0 =>
          \E g \in disk :
              /\ g.path = runs[Len(runs)].path
              /\ g.rows = <<<<buys[1].symbol, buys[1].entry_price,
                              buys[1].event_timestamp>>>>
    /\ Len(log) = 2 * Len(runs)
    /\ \A i \in 1..Len(runs) :
          /\ log[2 * i - 1].op = "makedirs"
          /\ log[2 * i - 1].arg = "daily_signals/" \o runs[i].name
          /\ log[2 * i].op = "to_csv"
          /\ log[2 * i].arg = runs[i].path
          /\ log[2 * i].n = 1

C10_Witness ==
    /\ Len(runs) = 2
    /\ runs[1].name = runs[2].name
    /\ runs[1].date = runs[2].date
    /\ runs[1].secs # runs[2].secs
    /\ Cardinality(disk) = 1

\* C11: every artifact on disk has the three columns symbol, entry_price,
\* entry_time, in this order and under these names.
C11_CanonicalColumns ==
    \A f \in disk : f.header = <<"symbol", "entry_price", "entry_time">>

\* C12: when send_telegram is called for a non-empty accepted set, the
\* caption it builds has one bullet per accepted row, in row order, each with
\* the row's symbol and its entry price, or the unavailable marker when the
\* price is absent.
C12_CaptionBulletPerRow ==
    pc = "notify" =>
        LET c == Bullets(buys, utcnow, 1)
        IN  /\ c.exc = ""
            /\ Len(c.bullets) = Len(buys)
            /\ \A k \in 1..Len(buys) :
                  /\ "symbol" \in DOMAIN c.bullets[k]
                  /\ c.bullets[k].symbol = buys[k].symbol
                  /\ IF buys[k].entry_price.k = "float"
                     THEN c.bullets[k].price = buys[k].entry_price
                     ELSE c.bullets[k].price.k = "N/A"

\* The label-1 rows of a table, as positions.
LabelOne(table) == {j \in 1..Len(table) : table[j].signal = 1}

\* The accepted rows b are the label-1 rows of table, in input order.
IsFilterOf(b, table) ==
    /\ {b[k].index : k \in 1..Len(b)} = LabelOne(table)
    /\ \A k \in 1..Len(b) : b[k].symbol = table[b[k].index].symbol
    /\ \A k \in 1..(Len(b) - 1) : b[k].index < b[k + 1].index

\* The file the disk holds at path.
FileAt(files, path) == CHOOSE g \in files : g.path = PathStr(path)

\* C13: the accepted rows are the label-1 rows in input order; each price
\* lookup leaves the rows and the earlier results as they are and never ends
\* the scenario; and the artifact written holds one row per accepted row, in
\* that order, whose price is absent exactly when its own lookup failed and
\* is the looked-up close otherwise.
C13_PriceFailureDegradesOneRow ==
    [][/\ (pc = "filter" /\ pc' = "prices") => IsFilterOf(buys', df)
       /\ (pc = "prices" /\ pc' = "prices") =>
             /\ buys' = buys
             /\ Len(col') = Len(col) + 1
             /\ SubSeq(col', 1, Len(col)) = col
       /\ pc = "prices" => pc' \in {"prices", "upload"}
       /\ (pc = "prices" /\ pc' = "upload") =>
             /\ \E g \in disk' : g.path = PathStr(out_csv')
             /\ LET f == FileAt(disk', out_csv')
                IN  /\ Len(f.rows) = Len(buys)
                    /\ \A k \in 1..Len(buys) :
                          /\ f.rows[k][1] = buys[k].symbol
                          /\ f.rows[k][3] = buys[k].event_timestamp
                          /\ IF col[k] = None
                             THEN f.rows[k][2] \in {None, NaN}
                             ELSE f.rows[k][2] = col[k]
      ]_vars

C13_Witness ==
    /\ pc = "upload"
    /\ Len(buys) = 2
    /\ buys[1].entry_price = NaN
    /\ buys[2].entry_price.k = "float"
    /\ \E g \in disk : g.path = PathStr(out_csv) /\ Len(g.rows) = 2

\* C14: the classifier is called at most once per scenario and exactly once
\* for a scenario that was classified; the call is given every row of the
\* table and labels every row; and the accepted set is the set of rows whose
\* own label is 1.
C14_OneBatchedPredict ==
    /\ [](\A s \in ScenarioNames :
             /\ Cardinality(Calls("predict", s)) <= 1
             /\ result[s] \in {"NoSignal", "signals"}
                   => Cardinality(Calls("predict", s)) = 1)
    /\ [][/\ (pc = "features" /\ pc' = "filter") =>
                /\ log'[Len(log')].op = "predict"
                /\ log'[Len(log')].n = Len(df)
                /\ Len(df') = Len(df)
                /\ \A k \in 1..Len(df) :
                      /\ df'[k].pct_return = col[k]
                      /\ df'[k].signal \in {0, 1}
          /\ (pc = "filter" /\ pc' = "prices") => IsFilterOf(buys', df)
          /\ (pc = "filter" /\ pc' = "loop") => LabelOne(df) = {}
         ]_vars

C14_Witness ==
    /\ pc = "prices"
    /\ Len(buys) = 1
    /\ buys[1].index = 2
    /\ Cardinality(Calls("predict", name)) = 1

\* C15: a call of compute_pct_return returns a value; the value is 0.0 when
\* the lookup raised, the timestamp is null or the window has fewer than two
\* closes, and is (last - prev) / prev of the two most recent closes
\* otherwise.
C15_PctReturnTotal ==
    probe.call = "compute_pct_return" =>
        LET c == probe.w.closes
            n == Len(c)
            failed == probe.w.raised \/ probe.ts = NaT
        IN  /\ probe.pct \in FeatureValues
            /\ (failed \/ n < 2) => probe.pct = <<0, 1>>
            /\ (~failed /\ n >= 2) =>
                  /\ probe.pct[2] > 0
                  /\ probe.pct[1] * c[n - 1] = (c[n] - c[n - 1]) * probe.pct[2]

C15_Witness ==
    /\ probe.call = "compute_pct_return"
    /\ Len(probe.w.closes) >= 2
    /\ probe.pct # <<0, 1>>

\* C16: a call of fetch_price returns None when the lookup raised, the
\* timestamp is null or the window is empty, and the most recent close of
\* the window otherwise.
C16_FetchPriceTotal ==
    probe.call = "fetch_price" =>
        LET c == probe.w.closes
            failed == probe.w.raised \/ probe.ts = NaT
        IN  IF failed \/ Len(c) = 0
            THEN probe.price = None
            ELSE probe.price = Float(c[Len(c)])

C16_Witness ==
    /\ probe.call = "fetch_price"
    /\ Len(probe.w.closes) >= 2
    /\ probe.w.closes[1] # probe.w.closes[Len(probe.w.closes)]
    /\ probe.price.k = "float"

\* Place of a scenario name in the lexicographic order.
Rank(s) == CHOOSE k \in 1..Len(NameTable) : NameTable[k] = s

\* C17: the scenarios are visited in lexicographic order of their names,
\* whatever the order of the list discovery returned.
C17_LexicographicOrder ==
    \A i \in 1..Len(order) : \A j \in 1..Len(order) :
        (i < j /\ result[order[j]] # "unvisited") => Rank(order[i]) < Rank(order[j])

\* C18: a scenario has at most one upload call and, once the run has ended,
\* a scenario with a non-empty accepted set has exactly one; the object is
\* named as the file of the artifact written before it; and send_telegram is
\* entered, and a document notification of the scenario sent, only after an
\* upload that succeeded.
C18_UploadOnceBetweenSaveAndNotify ==
    \A s \in ScenarioNames :
        /\ Cardinality(Calls("drive_create", s)) <= 1
        /\ (Finished /\ s \in NonEmptyAccepted)
              => Cardinality(Calls("drive_create", s)) = 1
        /\ \A k \in Calls("drive_create", s) :
              \E j \in Calls("to_csv", s) :
                  /\ j < k
                  /\ log[j].arg = OUTPUT_BASE \o "/" \o s \o "/" \o log[k].arg
                  /\ \E g \in disk : g.path = log[j].arg
        /\ \A d \in Calls("sendDocument", s) :
              \E k \in Calls("drive_create", s) : k < d /\ log[k].out = "ok"
        /\ (pc = "notify" /\ name = s) =>
              \E k \in Calls("drive_create", s) : log[k].out = "ok"

C18_Witness ==
    /\ Finished
    /\ \E s \in NonEmptyAccepted :
          \E k \in Calls("drive_create", s) :
              log[k].out = "ok" /\ log[k].arg = s \o "_signals_2024-01-02.csv"

\* C19: a scenario skipped for its missing model has no call but the
\* console line of the skip and no file; and the step that skips it leaves
\* the any-signal flag and the disk as they were.
C19_SkipHasNoEffect ==
    /\ [](\A s \in ScenarioNames :
             result[s] = "skipped" =>
                /\ \A k \in 1..Len(log) : log[k].scen = s => log[k].op = "print"
                /\ Cardinality(Calls("print", s)) = 1
                /\ \A g \in disk : g.path # PathStr(OutCsv(s, strftime(utcnow.date))))
    /\ [][(pc = "loop" /\ pos < Len(order) /\ pos' = pos + 1
              /\ order[pos + 1] \notin models) =>
             /\ any_signals' = any_signals
             /\ disk' = disk
             /\ Len(log') = Len(log) + 1
         ]_vars

C19_Witness ==
    /\ pc = "done"
    /\ \E s \in Range(order) : result[s] = "skipped"
    /\ \E s \in Range(order) : result[s] = "NoSignal"

\* Number of times the loop took up scenario s: by a skip or by a call of
\* process_scenario.
Handled(s) == Cardinality(Calls("print", s) \cap
                             {k \in 1..Len(log) : log[k].arg = "Skipping: missing model"})
                + Cardinality(Calls("read_csv", s))

\* C20: when a run that got past init_drive has ended, every discovered
\* scenario has been handled exactly once, whatever failed for the others.
C20_EveryScenarioHandledOnce ==
    (Finished /\ DriveReady) => \A s \in Range(order) : Handled(s) = 1

====
